---- MODULE Spec2Model ----
(***************************************************************************)
(* End-to-end encrypted chat of the F1 fantasy league app.                 *)
(*                                                                         *)
(* One browser page (js/services/chat.js, js/services/crypto.js,           *)
(* js/services/auth.js, js/ui/chat.js, js/app.js) and the Firestore        *)
(* backend it talks to.  Users sign in one after the other on the page;    *)
(* every async function is a task whose steps are the points where it      *)
(* touches shared state (the backend, IndexedDB, the key cache, the auth   *)
(* state).  Pure awaits (Web Crypto calls) are folded into the step that   *)
(* follows them.                                                           *)
(***************************************************************************)
EXTENDS Integers, Sequences, FiniteSets, TLC

\* ----------------------------------------------------------------- bounds

MaxTasks == 2       \* async calls in flight at one time
MaxChats == 2       \* chat documents the store can hold
OneChat == 1        \* chat documents created where one chat is enough
MaxBinds == 2       \* times initChat binds the handlers of the page
MaxMsgs == 3        \* message documents ever written
MaxIvs == 3         \* IVs ever drawn
OneTask == 1        \* calls in flight where the calls of a page never overlap
OneMsg == 1         \* message documents written where one message is enough
MaxLen == 2         \* characters of a plaintext handed to encryptMessage
MaxKeys == 2        \* chat keys handed to encryptMessage and decryptMessage

\* firestoreLimit(300) of subscribeToMessages, scaled down so that a chat can
\* hold more documents than the query returns.
MessageLimit == 2

Users == {"A", "B", "C"}
None == "none"


\* ------------------------------------------------------------ small helpers

Range(s) == {s[i] : i \in DOMAIN s}

Min(a, b) == IF a < b THEN a ELSE b

RECURSIVE Dedup(_)
\* [...new Set(list)]: first occurrences, in order.
Dedup(s) ==
    IF s = <<>> THEN <<>>
    ELSE LET r == Dedup(SubSeq(s, 1, Len(s) - 1))
             x == s[Len(s)]
         IN IF x \in Range(r) THEN r ELSE Append(r, x)

\* --------------------------------------------------------------- text

Space == " "
Surrogate == "\\uD800"      \* a lone UTF-16 surrogate code unit
Replacement == "\\uFFFD"

RECURSIVE Trim(_)
\* String.prototype.trim on a sequence of characters.
Trim(s) ==
    IF s = <<>> THEN s
    ELSE IF Head(s) = Space THEN Trim(Tail(s))
    ELSE IF s[Len(s)] = Space THEN Trim(SubSeq(s, 1, Len(s) - 1))
    ELSE s

\* new TextEncoder().encode(s): the UTF-8 bytes, per character; a lone
\* surrogate is encoded as U+FFFD.
TextEncode(s) == [i \in DOMAIN s |-> [utf8 |-> IF s[i] = Surrogate THEN Replacement ELSE s[i]]]

\* new TextDecoder().decode(bytes)
TextDecode(b) == [i \in DOMAIN b |-> b[i].utf8]

\* btoa(String.fromCharCode(...bytes)) and Uint8Array.from(atob(s), ...)
Btoa(bytes) == [b64 |-> bytes]
Atob(s) == s.b64

Placeholder == <<"[Unable to decrypt]">>

\* --------------------------------------------------------------- crypto

\* crypto.subtle.generateKey RSA-OAEP: the pair numbered p = <<uid, n>>, the
\* n-th pair generated for uid.
KeyPair(p) == [publicKey |-> [rsaPub |-> p], privateKey |-> [rsaPriv |-> p]]

exportPublicKey(publicKey) == Btoa([spki |-> publicKey.rsaPub])

importPublicKey(b64) == [rsaPub |-> Atob(b64).spki]

\* What getUserKeyPair writes to and reads from IndexedDB.
ExportJwkPair(pair) ==
    [privateJwk |-> [jwk |-> pair.privateKey], publicJwk |-> [jwk |-> pair.publicKey]]

ImportJwkPair(stored) ==
    [publicKey |-> stored.publicJwk.jwk, privateKey |-> stored.privateJwk.jwk]

\* generateChatKey: the AES-256-GCM key numbered k.
ChatKey(k) == [aes |-> k]

\* The chat key exported raw: bytes that any reader of the backend holds.
RawChatKey(aesKey, rsaPublicKey) ==
    Btoa([oaep |-> <<None, 0>>, raw |-> aesKey.aes])

encryptChatKey(aesKey, rsaPublicKey) ==
    Btoa([oaep |-> rsaPublicKey.rsaPub, raw |-> aesKey.aes])

\* RSA-OAEP decryption rejects under any private key but the matching one.
decryptChatKey(encryptedB64, rsaPrivateKey) ==
    LET c == Atob(encryptedB64)
    IN IF c.oaep = rsaPrivateKey.rsaPriv
       THEN [ok |-> TRUE, key |-> [aes |-> c.raw]]
       ELSE [ok |-> FALSE, key |-> [aes |-> 0]]

\* AES-GCM under aesKey with the drawn iv; tag is the authentication tag.
\* An encryptMessage that derives the IV from the text instead of drawing it.
encryptMessageContentIv(plaintext, aesKey, iv) ==
    [ciphertext |-> Btoa([gcm |-> aesKey.aes, iv |-> Len(plaintext),
                          data |-> TextEncode(plaintext), tag |-> TRUE]),
     iv |-> Btoa(Len(plaintext))]

\* An encryptMessage that trims the text it is given.
encryptMessageTrimming(plaintext, aesKey, iv) ==
    [ciphertext |-> Btoa([gcm |-> aesKey.aes, iv |-> iv,
                          data |-> TextEncode(Trim(plaintext)), tag |-> TRUE]),
     iv |-> Btoa(iv)]

encryptMessage(plaintext, aesKey, iv) ==
    [ciphertext |-> Btoa([gcm |-> aesKey.aes, iv |-> iv, data |-> TextEncode(plaintext),
                          tag |-> TRUE]),
     iv |-> Btoa(iv)]

\* A decryption without authentication: any bytes under the right key decode.
decryptMessageUnauthenticated(ciphertextB64, ivB64, aesKey) ==
    LET c == Atob(ciphertextB64)
    IN IF c.gcm = aesKey.aes
       THEN [ok |-> TRUE, text |-> TextDecode(c.data)]
       ELSE [ok |-> FALSE, text |-> <<>>]

decryptMessage(ciphertextB64, ivB64, aesKey) ==
    LET c == Atob(ciphertextB64)
        iv == Atob(ivB64)
    IN IF c.gcm = aesKey.aes /\ c.iv = iv /\ c.tag
       THEN [ok |-> TRUE, text |-> TextDecode(c.data)]
       ELSE [ok |-> FALSE, text |-> <<>>]

\* ---------------------------------------------------------------- state

VARIABLES
    currentUser,    \* auth.currentUser: a uid or None
    signingOut,     \* logout(): signOut(auth) issued and not yet completed
    userDocs,       \* Firestore users/{uid}: [exists, chatPublicKey]
    chats,          \* Firestore chats: sequence of documents, id = index
    messages,       \* Firestore chats/{id}/messages, in timestamp order
    idb,            \* IndexedDB store 'keys': rsa_{uid} -> stored JWK pair
    keyCache,       \* _keyCache: chatId -> CryptoKey
    initialized,    \* _initialized of the chat UI module
    listeners,      \* click listeners initChat has added to the Start Chat button
    sub,            \* the live message subscription (_unsubMessages)
    unsubChats,     \* _unsubChats: the user whose chat list it unsubscribes, or None for null
    chatList,       \* _chatList: the ids of the chats the chat list shows
    activeChatId,   \* _activeChatId: a chat id, or 0 for null
    timers,         \* chat ids with a setTimeout(() => _openChat(chatId), 200) pending
    liveChats,      \* chat-list listeners registered with onSnapshot and not unsubscribed
    liveMessages,   \* per chat, message listeners registered and not unsubscribed
    keyInitFor,     \* the user for whom initChat started initUserChatKeys, since destroyChat
    tasks,          \* async calls in flight
    nextPair,       \* RSA pairs generated so far
    nextIv,         \* IVs drawn so far
    cleared,        \* chats cached at the last clearChatKeyCache and not resolved since
    outcome         \* the call that ended in the last step, as its caller sees it

vars == <<currentUser, signingOut, userDocs, chats, messages, idb, keyCache,
          initialized, listeners, sub, unsubChats, chatList, activeChatId, timers,
          liveChats, liveMessages, keyInitFor, tasks, nextPair, nextIv, cleared, outcome>>

backend == <<userDocs, chats, messages>>
panel == <<unsubChats, chatList, activeChatId, timers, liveChats, liveMessages, keyInitFor>>
bookkeeping == <<nextPair, nextIv, cleared>>

Slots == 1..MaxTasks
ChatIds == 1..MaxChats

\* A chat id that _keyCache does not hold maps to NoKey.
NoKey == [aes |-> 0]

\* A user document without chatPublicKey; rsa_{uid} absent from IndexedDB.
NoPair == KeyPair(<<None, 0>>)
NoPublicKey == exportPublicKey(NoPair.publicKey)
NoStored == ExportJwkPair(NoPair)
NoWrapped == Btoa([oaep |-> <<None, 0>>, raw |-> 0])
NoEnc == [ciphertext |-> Btoa([gcm |-> 0, iv |-> 0, data |-> <<>>, tag |-> FALSE]),
          iv |-> Btoa(0)]

CacheHas(c) == keyCache[c] # NoKey

\* by is the user who was signed in when the subscription was made.
NoSub == [chat |-> 0, by |-> None, sent |-> FALSE, last |-> <<>>]

\* A task's record; the fields an operation does not use keep these values.
NewTask ==
    [op |-> "idle", pc |-> "", user |-> None, chat |-> 0, req |-> <<>>, uids |-> <<>>,
     pks |-> <<>>, text |-> <<>>, key |-> NoKey, wrapped |-> NoWrapped, pair |-> NoPair,
     enc |-> NoEnc, docs |-> <<>>]

Idle == NewTask

FreeSlots == {i \in Slots : tasks[i].op = "idle"}

\* A new task takes the lowest free slot.
FreeSlot == CHOOSE i \in FreeSlots : \A j \in FreeSlots : i <= j

Spawn(t) == tasks' = [tasks EXCEPT ![FreeSlot] = t]

Finish(i) == tasks' = [tasks EXCEPT ![i] = Idle]

\* docs is the snapshot a delivered batch was computed from.
Outcome(op, status, user, chat, batch) ==
    [op |-> op, status |-> status, user |-> user, chat |-> chat, batch |-> batch,
     docs |-> <<>>]

NoOutcome == Outcome("none", "none", None, 0, <<>>)

\* The step ends no call.
Quiet == outcome' = NoOutcome

InFlight(op) == Cardinality({i \in Slots : tasks[i].op = op})

Running == Cardinality(Slots \ FreeSlots)

RECURSIVE MsgsUpTo(_)
MsgsUpTo(c) == IF c = 0 THEN 0 ELSE Len(messages[c]) + MsgsUpTo(c - 1)

TotalMsgs == MsgsUpTo(MaxChats)

\* The page before anyone signed in.  The users of fresh have never used the
\* chat; the others published a key from another device, so this browser's
\* IndexedDB holds no pair of theirs.
InitFor(fresh) ==
    /\ currentUser = None
    /\ signingOut = FALSE
    /\ userDocs = [u \in Users |->
                      IF u \in fresh
                      THEN [exists |-> TRUE, chatPublicKey |-> NoPublicKey]
                      ELSE [exists |-> TRUE,
                            chatPublicKey |-> exportPublicKey(KeyPair(<<u, 1>>).publicKey)]]
    /\ chats = <<>>
    /\ messages = [c \in ChatIds |-> <<>>]
    /\ idb = [u \in Users |-> NoStored]
    /\ keyCache = [c \in ChatIds |-> NoKey]
    /\ initialized = FALSE
    /\ listeners = 0
    /\ unsubChats = None
    /\ chatList = {}
    /\ activeChatId = 0
    /\ timers = {}
    /\ liveChats = 0
    /\ liveMessages = [c \in ChatIds |-> 0]
    /\ keyInitFor = None
    /\ sub = NoSub
    /\ tasks = [i \in Slots |-> Idle]
    /\ nextPair = [u \in Users |-> IF u \in fresh THEN 0 ELSE 1]
    /\ nextIv = 0
    /\ cleared = [c \in ChatIds |-> FALSE]
    /\ outcome = NoOutcome

Init == InitFor({"A"})

\* ------------------------------------------------------- auth and lifecycle

\* signInWithEmailAndPassword / createUserWithEmailAndPassword completes.
Login(u) ==
    /\ currentUser = None
    /\ ~signingOut
    /\ currentUser' = u
    /\ UNCHANGED <<signingOut, backend, idb, keyCache, initialized, listeners, panel, sub, tasks,
                  bookkeeping>>
    /\ Quiet

\* clearChatKeyCache
ClearedCache == [c \in ChatIds |-> NoKey]

\* if (_unsubMessages) { _unsubMessages(); _unsubMessages = null; }: the
\* listeners left once the subscription _unsubMessages refers to is ended.
Unsubscribed ==
    IF sub = NoSub THEN liveMessages
    ELSE [liveMessages EXCEPT ![sub.chat] = @ - 1]

\* initChat, called by switchView('chat'); with a user it binds the handlers of
\* the page once more (_bindNewChatBtn), and destroyChat removes none.
InitChat(n) ==
    /\ ~initialized
    /\ initialized' = TRUE
    /\ IF currentUser = None
       THEN UNCHANGED <<tasks, listeners, unsubChats, liveChats, keyInitFor>>
       ELSE /\ Running < n
            /\ listeners < MaxBinds
            /\ Spawn([NewTask EXCEPT !.op = "init", !.pc = "get", !.user = currentUser])
            /\ keyInitFor' = currentUser
            /\ listeners' = listeners + 1
            /\ unsubChats' = currentUser
            /\ liveChats' = liveChats + 1
    /\ UNCHANGED <<currentUser, signingOut, backend, idb, keyCache, sub, chatList,
                  activeChatId, timers, liveMessages, bookkeeping>>
    /\ Quiet

\* The logout button: destroyChat(), then logout() starts signOut(auth).
LogoutClick ==
    /\ currentUser # None
    /\ ~signingOut
    /\ unsubChats' = None
    /\ liveChats' = IF unsubChats # None THEN liveChats - 1 ELSE liveChats
    /\ sub' = NoSub
    /\ liveMessages' = Unsubscribed
    /\ keyCache' = ClearedCache
    /\ activeChatId' = 0
    /\ initialized' = FALSE
    /\ keyInitFor' = None
    /\ signingOut' = TRUE
    /\ cleared' = [c \in ChatIds |-> cleared[c] \/ CacheHas(c)]
    /\ UNCHANGED <<currentUser, backend, idb, listeners, chatList, timers, tasks, nextPair,
                  nextIv>>
    /\ Quiet

\* signOut(auth) completes.
SignOutDone ==
    /\ signingOut
    /\ signingOut' = FALSE
    /\ currentUser' = None
    /\ UNCHANGED <<backend, idb, keyCache, initialized, listeners, panel, sub, tasks, bookkeeping>>
    /\ Quiet

\* ------------------------------------------------------ initUserChatKeys

\* getUserKeyPair: _idbGet resolves; without a stored pair a new one is
\* generated and is still to be persisted.
InitGet(i) ==
    LET t == tasks[i] IN
    /\ t.op = "init" /\ t.pc = "get"
    /\ IF idb[t.user] # NoStored
       THEN /\ tasks' = [tasks EXCEPT ![i].pc = "publish",
                                      ![i].pair = ImportJwkPair(idb[t.user])]
            /\ UNCHANGED nextPair
       ELSE /\ nextPair' = [nextPair EXCEPT ![t.user] = @ + 1]
            /\ tasks' = [tasks EXCEPT ![i].pc = "put",
                                      ![i].pair = KeyPair(<<t.user, nextPair[t.user] + 1>>)]
    /\ UNCHANGED <<currentUser, signingOut, backend, idb, keyCache, initialized, listeners, panel, sub,
                  nextIv, cleared>>
    /\ Quiet

\* getUserKeyPair: _idbPut of the generated pair.
InitPut(i) ==
    LET t == tasks[i] IN
    /\ t.op = "init" /\ t.pc = "put"
    /\ idb' = [idb EXCEPT ![t.user] = ExportJwkPair(t.pair)]
    /\ tasks' = [tasks EXCEPT ![i].pc = "publish"]
    /\ UNCHANGED <<currentUser, signingOut, backend, keyCache, initialized, listeners, panel, sub,
                  bookkeeping>>
    /\ Quiet

\* register: setDoc(users/{uid}, {...}) resolves; the new account is signed
\* in since createUserWithEmailAndPassword resolved.
RegisterDoc(u) ==
    /\ currentUser = u
    /\ ~userDocs[u].exists
    /\ userDocs' = [userDocs EXCEPT ![u] = [exists |-> TRUE, chatPublicKey |-> NoPublicKey]]
    /\ UNCHANGED <<currentUser, signingOut, chats, messages, idb, keyCache,
                  initialized, listeners, panel, sub, tasks, bookkeeping>>
    /\ Quiet

\* An initUserChatKeys that lets the rejection of updateDoc through.
InitPublishRaising(i) ==
    LET t == tasks[i] IN
    /\ t.op = "init" /\ t.pc = "publish"
    /\ userDocs' = IF userDocs[t.user].exists
                   THEN [userDocs EXCEPT
                            ![t.user].chatPublicKey = exportPublicKey(t.pair.publicKey)]
                   ELSE userDocs
    /\ Finish(i)
    /\ outcome' = Outcome("init", IF userDocs[t.user].exists THEN "ok" ELSE "NotFound",
                          t.user, 0, <<>>)
    /\ UNCHANGED <<currentUser, signingOut, chats, messages, idb, keyCache,
                  initialized, listeners, panel, sub, bookkeeping>>

\* updateDoc(users/{uid}, {chatPublicKey}); a rejected update (no such
\* document) is swallowed.
InitPublish(i) ==
    LET t == tasks[i] IN
    /\ t.op = "init" /\ t.pc = "publish"
    /\ userDocs' = IF userDocs[t.user].exists
                   THEN [userDocs EXCEPT
                            ![t.user].chatPublicKey = exportPublicKey(t.pair.publicKey)]
                   ELSE userDocs
    /\ Finish(i)
    /\ outcome' = Outcome("init", "ok", t.user, 0, <<>>)
    /\ UNCHANGED <<currentUser, signingOut, chats, messages, idb, keyCache,
                  initialized, listeners, panel, sub, bookkeeping>>

\* ------------------------------------------------------------ createChat

\* The participantUids the callers pass; a list may name the caller.
ParticipantLists ==
    {<<"A", "C">>, <<"B", "C">>}

\* The creator followed by the requested ids as they were passed.
ListedUids(uid, participantUids) == <<uid>> \o participantUids

\* const allUids = [...new Set([user.uid, ...participantUids])]
AllUids(uid, participantUids) == Dedup(<<uid>> \o participantUids)

\* createChat(participantUids) up to its first await.
CreateChat(participantUids, n) ==
    /\ IF currentUser = None
       THEN /\ outcome' = Outcome("create", "NotAuthenticated", None, 0, <<>>)
            /\ UNCHANGED tasks
       ELSE /\ Running < n
            /\ Len(chats) + InFlight("create") < OneChat
            /\ Spawn([NewTask EXCEPT !.op = "create", !.pc = "fetch",
                                     !.user = currentUser, !.req = participantUids,
                                     !.uids = AllUids(currentUser, participantUids)])
            /\ Quiet
    /\ UNCHANGED <<currentUser, signingOut, backend, idb, keyCache, initialized, listeners, panel, sub,
                  bookkeeping>>

\* One click on Start Chat with the members of participantUids checked:
\* every click listener that _bindNewChatBtn added runs up to its await of
\* createChat(selected, chatName), so that many calls are under way.
StartChatClick(participantUids, n) ==
    LET t == [NewTask EXCEPT !.op = "create", !.pc = "fetch", !.user = currentUser,
                             !.req = participantUids,
                             !.uids = AllUids(currentUser, participantUids)]
        taken == {i \in FreeSlots : Cardinality({j \in FreeSlots : j < i}) < listeners}
    IN
    /\ currentUser # None
    /\ listeners >= 1
    /\ Running + listeners <= n
    /\ Len(chats) + InFlight("create") + listeners <= MaxChats
    /\ \A c \in 1..Len(chats) :
          ~(chats[c].createdBy = currentUser /\ chats[c].participants = t.uids)
    /\ \A i \in Slots : tasks[i].op # "create"
    /\ tasks' = [i \in Slots |-> IF i \in taken THEN t ELSE tasks[i]]
    /\ UNCHANGED <<currentUser, signingOut, backend, idb, keyCache, initialized,
                  listeners, panel, sub, bookkeeping>>
    /\ Quiet

\* A lookup that takes any chatPublicKey field for a key.
NeverMissing(keyB64) == FALSE

\* if (!keyB64) throw
MissingKey(keyB64) == keyB64 = NoPublicKey

\* One round of the loop over allUids: getDoc(users/{uid}) resolves.
CreateFetch(i) ==
    LET t == tasks[i]
        uid == t.uids[Len(t.pks) + 1]
        keyB64 == userDocs[uid].chatPublicKey
    IN
    /\ t.op = "create" /\ t.pc = "fetch"
    /\ IF MissingKey(keyB64)
       THEN /\ Finish(i)
            /\ outcome' = Outcome("create", "KeyNotFound", t.user, 0, <<>>)
       ELSE /\ tasks' = [tasks EXCEPT
                            ![i].pks = Append(t.pks, importPublicKey(keyB64)),
                            ![i].pc = IF Len(t.pks) + 1 = Len(t.uids)
                                      THEN "add" ELSE "fetch"]
            /\ Quiet
    /\ UNCHANGED <<currentUser, signingOut, backend, idb, keyCache, initialized, listeners, panel, sub,
                  bookkeeping>>

\* The encryptedKeys map: the chat key wrapped for every uid of allUids.
EncryptedKeys(chatKey, uids, pks) ==
    [u \in Range(uids) |->
        encryptChatKey(chatKey, pks[CHOOSE n \in DOMAIN uids : uids[n] = u])]

\* The document createChat hands to addDoc, called without a name.
\* lastMessageAt counts the serverTimestamp() writes to the field after
\* createdAt.
ChatDoc(t, chatKey) ==
    [participants |-> t.uids,
     encryptedKeys |-> EncryptedKeys(chatKey, t.uids, t.pks),
     createdBy |-> t.user,
     name |-> None,
     lastMessageAt |-> 0]

\* generateChatKey, the wrapping loop, and addDoc(chats) reaching the backend.
CreateAdd(i) ==
    LET t == tasks[i]
        chatKey == ChatKey(Len(chats) + 1)
    IN
    /\ t.op = "create" /\ t.pc = "add"
    /\ chats' = Append(chats, ChatDoc(t, chatKey))
    /\ tasks' = [tasks EXCEPT ![i].pc = "cache", ![i].key = chatKey,
                              ![i].chat = Len(chats) + 1]
    /\ UNCHANGED <<currentUser, signingOut, userDocs, messages, idb, keyCache,
                  initialized, listeners, panel, sub, bookkeeping>>
    /\ Quiet

\* A createChat that caches the key before addDoc, under the id the document
\* was going to get, and does not take it back when addDoc rejects.
CreateAddFailCaching(i) ==
    LET t == tasks[i] IN
    /\ t.op = "create" /\ t.pc = "add"
    /\ Len(chats) < MaxChats
    /\ keyCache' = [keyCache EXCEPT ![Len(chats) + 1] = ChatKey(Len(chats) + 1)]
    /\ Finish(i)
    /\ outcome' = Outcome("create", "StorageUnavailable", t.user, 0, <<>>)
    /\ UNCHANGED <<currentUser, signingOut, backend, idb, initialized, listeners, panel, sub, bookkeeping>>

\* addDoc(chats) rejects: the store is unavailable.
CreateAddFail(i) ==
    LET t == tasks[i] IN
    /\ t.op = "create" /\ t.pc = "add"
    /\ Finish(i)
    /\ outcome' = Outcome("create", "StorageUnavailable", t.user, 0, <<>>)
    /\ UNCHANGED <<currentUser, signingOut, backend, idb, keyCache, initialized, listeners, panel, sub,
                  bookkeeping>>

\* A createChat that caches a key generated anew, not the one it wrapped.
CreateCacheOther(i) ==
    LET t == tasks[i] IN
    /\ t.op = "create" /\ t.pc = "cache"
    /\ keyCache' = [keyCache EXCEPT ![t.chat] = ChatKey(t.key.aes + MaxChats)]
    /\ timers' = timers \cup {t.chat}
    /\ Finish(i)
    /\ outcome' = Outcome("create", "ok", t.user, t.chat, <<>>)
    /\ UNCHANGED <<currentUser, signingOut, backend, idb, initialized, listeners, sub,
                  unsubChats, chatList, activeChatId, liveChats, liveMessages, keyInitFor,
                  bookkeeping>>

\* addDoc resolved: _keyCache.set(chatRef.id, chatKey); return chatRef.id.
\* The click handler that awaited createChat then schedules
\* setTimeout(() => _openChat(chatId), 200).
CreateCache(i) ==
    LET t == tasks[i] IN
    /\ t.op = "create" /\ t.pc = "cache"
    /\ keyCache' = [keyCache EXCEPT ![t.chat] = t.key]
    /\ timers' = timers \cup {t.chat}
    /\ Finish(i)
    /\ outcome' = Outcome("create", "ok", t.user, t.chat, <<>>)
    /\ UNCHANGED <<currentUser, signingOut, backend, idb, initialized, listeners, sub,
                  unsubChats, chatList, activeChatId, liveChats, liveMessages, keyInitFor,
                  bookkeeping>>

\* ------------------------------------------------------------ _getChatKey

\* _getChatKey returned aesKey to the task that awaited it.
WithKey(t, aesKey) ==
    [t EXCEPT !.key = aesKey, !.pc = IF t.op = "send" THEN "encrypt" ELSE "decrypt"]

\* A caller that goes on to the write without a key when _getChatKey threw.
WriteWithoutKey(i, status) ==
    /\ tasks' = [tasks EXCEPT ![i].pc = "addDoc"]
    /\ Quiet

\* A snapshot handler that, when _getChatKey throws, hands the callback the
\* documents of the snapshot as they are instead of the empty batch.
KeyFailureUndecrypted(i, status) ==
    /\ Finish(i)
    /\ outcome' = Outcome(tasks[i].op, status, tasks[i].user, tasks[i].chat, tasks[i].docs)

\* _getChatKey threw: sendMessage rethrows to its caller, the snapshot
\* handler catches and calls callback([]).
KeyFailure(i, status) ==
    /\ Finish(i)
    /\ outcome' = Outcome(tasks[i].op, status, tasks[i].user, tasks[i].chat, <<>>)

\* A resolution that is dropped together with the subscription it serves.
ResolvingWhileSubscribed(t) == t.op = "send" \/ (t.op = "snap" /\ sub.chat = t.chat)

Resolving(t) == t.op \in {"send", "snap"}

\* getDoc(chats/{chatId}) resolves.
ResolveDoc(i) ==
    LET t == tasks[i] IN
    /\ Resolving(t) /\ t.pc = "getDoc"
    /\ IF t.chat \notin 1..Len(chats)
       THEN KeyFailure(i, "ChatNotFound")
       ELSE IF t.user \notin DOMAIN chats[t.chat].encryptedKeys
       THEN KeyFailure(i, "NotAParticipant")
       ELSE /\ tasks' = [tasks EXCEPT ![i].pc = "idbGet",
                                      ![i].wrapped = chats[t.chat].encryptedKeys[t.user]]
            /\ Quiet
    /\ UNCHANGED <<currentUser, signingOut, backend, idb, keyCache, initialized, listeners, panel, sub,
                  bookkeeping>>

\* A resolution that gives up when an overlapping one filled the cache first.
UnwrapExclusive(i, privateKey) ==
    LET t == tasks[i]
        d == decryptChatKey(t.wrapped, privateKey)
    IN IF d.ok /\ ~CacheHas(t.chat)
       THEN /\ keyCache' = [keyCache EXCEPT ![t.chat] = d.key]
            /\ tasks' = [tasks EXCEPT ![i] = WithKey(t, d.key)]
            /\ Quiet
       ELSE /\ KeyFailure(i, "UnwrapFailed")
            /\ UNCHANGED keyCache

\* A resolution that fills the cache entry before it knows the unwrap worked.
UnwrapCachingFirst(i, privateKey) ==
    LET t == tasks[i]
        d == decryptChatKey(t.wrapped, privateKey)
    IN /\ keyCache' = [keyCache EXCEPT ![t.chat] = IF d.ok THEN d.key ELSE [aes |-> -1]]
       /\ IF d.ok
          THEN /\ tasks' = [tasks EXCEPT ![i] = WithKey(t, d.key)]
               /\ Quiet
          ELSE KeyFailure(i, "UnwrapFailed")

\* decryptChatKey with the private key getUserKeyPair returned, then
\* _keyCache.set(chatId, aesKey).
Unwrap(i, privateKey) ==
    LET t == tasks[i]
        d == decryptChatKey(t.wrapped, privateKey)
    IN IF d.ok
       THEN /\ keyCache' = [keyCache EXCEPT ![t.chat] = d.key]
            /\ tasks' = [tasks EXCEPT ![i] = WithKey(t, d.key)]
            /\ Quiet
       ELSE /\ KeyFailure(i, "UnwrapFailed")
            /\ UNCHANGED keyCache

\* getUserKeyPair(user.uid): _idbGet resolves.
ResolveIdbGet(i) ==
    LET t == tasks[i] IN
    /\ Resolving(t) /\ t.pc = "idbGet"
    /\ IF idb[t.user] # NoStored
       THEN /\ Unwrap(i, ImportJwkPair(idb[t.user]).privateKey)
            /\ UNCHANGED nextPair
       ELSE /\ nextPair' = [nextPair EXCEPT ![t.user] = @ + 1]
            /\ tasks' = [tasks EXCEPT ![i].pc = "idbPut",
                                      ![i].pair = KeyPair(<<t.user, nextPair[t.user] + 1>>)]
            /\ UNCHANGED keyCache
            /\ Quiet
    /\ UNCHANGED <<currentUser, signingOut, backend, idb, initialized, listeners, panel, sub, nextIv,
                  cleared>>

\* getUserKeyPair(user.uid): _idbPut of the pair it generated.
ResolveIdbPut(i) ==
    LET t == tasks[i] IN
    /\ Resolving(t) /\ t.pc = "idbPut"
    /\ idb' = [idb EXCEPT ![t.user] = ExportJwkPair(t.pair)]
    /\ Unwrap(i, t.pair.privateKey)
    /\ UNCHANGED <<currentUser, signingOut, backend, initialized, listeners, panel, sub, bookkeeping>>

\* A _getChatKey that never looks into _keyCache.
AlwaysFetch(t) == [t EXCEPT !.pc = "getDoc"]

\* The synchronous head of _getChatKey, run by a signed-in caller: the
\* cached key, or the wait for the chat document.
AwaitKey(t) ==
    IF CacheHas(t.chat) THEN WithKey(t, keyCache[t.chat]) ELSE [t EXCEPT !.pc = "getDoc"]

\* ------------------------------------------------------------ sendMessage

Texts == {<<>>, <<Space>>, <<Space, "a", Space>>}

\* A sendMessage that returns early on the empty text only, not on a text of
\* white space.
SendMessageUntrimmed(c, text, n, maxMsgs) ==
    /\ IF currentUser = None
       THEN /\ outcome' = Outcome("send", "NotAuthenticated", None, c, <<>>)
            /\ UNCHANGED <<tasks, cleared>>
       ELSE IF text = <<>>
       THEN /\ outcome' = Outcome("send", "nothing", currentUser, c, <<>>)
            /\ UNCHANGED <<tasks, cleared>>
       ELSE /\ Running < n
            /\ TotalMsgs + InFlight("send") < maxMsgs
            /\ Spawn(AwaitKey([NewTask EXCEPT !.op = "send", !.user = currentUser,
                                              !.chat = c, !.text = text]))
            /\ cleared' = [cleared EXCEPT ![c] = FALSE]
            /\ Quiet
    /\ UNCHANGED <<currentUser, signingOut, backend, idb, keyCache, initialized, listeners, panel, sub,
                  nextPair, nextIv>>

\* sendMessage(chatId, text) up to its first await.
SendMessage(c, text, n, maxMsgs) ==
    /\ IF currentUser = None
       THEN /\ outcome' = Outcome("send", "NotAuthenticated", None, c, <<>>)
            /\ UNCHANGED <<tasks, cleared>>
       ELSE IF text = <<>> \/ Trim(text) = <<>>
       THEN /\ outcome' = Outcome("send", "nothing", currentUser, c, <<>>)
            /\ UNCHANGED <<tasks, cleared>>
       ELSE /\ Running < n
            /\ TotalMsgs + InFlight("send") < maxMsgs
            /\ Spawn(AwaitKey([NewTask EXCEPT !.op = "send", !.user = currentUser,
                                              !.chat = c, !.text = text]))
            /\ cleared' = [cleared EXCEPT ![c] = FALSE]
            /\ Quiet
    /\ UNCHANGED <<currentUser, signingOut, backend, idb, keyCache, initialized, listeners, panel, sub,
                  nextPair, nextIv>>

\* encryptMessage(text.trim(), aesKey) with a newly drawn IV.
SendEncrypt(i) ==
    LET t == tasks[i] IN
    /\ t.op = "send" /\ t.pc = "encrypt"
    /\ nextIv < MaxIvs
    /\ nextIv' = nextIv + 1
    /\ tasks' = [tasks EXCEPT ![i].pc = "addDoc",
                              ![i].enc = encryptMessage(Trim(t.text), t.key, nextIv + 1)]
    /\ UNCHANGED <<currentUser, signingOut, backend, idb, keyCache, initialized, listeners, panel, sub,
                  nextPair, cleared>>
    /\ Quiet

\* crypto.subtle.encrypt rejects.
SendEncryptFail(i) ==
    LET t == tasks[i] IN
    /\ t.op = "send" /\ t.pc = "encrypt"
    /\ Finish(i)
    /\ outcome' = Outcome("send", "EncryptFailed", t.user, t.chat, <<>>)
    /\ UNCHANGED <<currentUser, signingOut, backend, idb, keyCache, initialized, listeners, panel, sub,
                  bookkeeping>>

\* profile?.displayName || user.email || 'Unknown'
DisplayName(u) == <<"name of", u>>

\* A message document whose content field holds the bytes of the text itself.
PlainMessageDoc(t, n) ==
    [id |-> n,
     sender |-> t.user,
     senderName |-> DisplayName(t.user),
     encryptedContent |-> Btoa([gcm |-> 0, iv |-> 0, data |-> TextEncode(Trim(t.text)),
                                tag |-> FALSE]),
     iv |-> t.enc.iv,
     timestamp |-> n]

\* The document sendMessage hands to addDoc; the backend sets its timestamp,
\* which orders the collection: n is its place in it.
MessageDoc(t, n) ==
    [id |-> n,
     sender |-> t.user,
     senderName |-> DisplayName(t.user),
     encryptedContent |-> t.enc.ciphertext,
     iv |-> t.enc.iv,
     timestamp |-> n]

\* A sendMessage that keeps one message document per chat and overwrites it.
SendAddOverwriting(i) ==
    LET t == tasks[i] IN
    /\ t.op = "send" /\ t.pc = "addDoc"
    /\ messages' = [messages EXCEPT ![t.chat] = <<MessageDoc(t, 1)>>]
    /\ tasks' = [tasks EXCEPT ![i].pc = "updateDoc"]
    /\ UNCHANGED <<currentUser, signingOut, userDocs, chats, idb, keyCache,
                  initialized, listeners, panel, sub, bookkeeping>>
    /\ Quiet

\* addDoc(chats/{chatId}/messages) reaches the backend.
SendAdd(i) ==
    LET t == tasks[i] IN
    /\ t.op = "send" /\ t.pc = "addDoc"
    /\ messages' = [messages EXCEPT ![t.chat] = Append(@, MessageDoc(t, Len(@) + 1))]
    /\ tasks' = [tasks EXCEPT ![i].pc = "updateDoc"]
    /\ UNCHANGED <<currentUser, signingOut, userDocs, chats, idb, keyCache,
                  initialized, listeners, panel, sub, bookkeeping>>
    /\ Quiet

\* addDoc(chats/{chatId}/messages) rejects.
SendAddFail(i) ==
    LET t == tasks[i] IN
    /\ t.op = "send" /\ t.pc = "addDoc"
    /\ Finish(i)
    /\ outcome' = Outcome("send", "StorageUnavailable", t.user, t.chat, <<>>)
    /\ UNCHANGED <<currentUser, signingOut, backend, idb, keyCache, initialized, listeners, panel, sub,
                  bookkeeping>>

\* A sendMessage that writes the chat document anew instead of updating its
\* lastMessageAt: the sender is all that is left of participants.
SendTouchOverwriting(i) ==
    LET t == tasks[i] IN
    /\ t.op = "send" /\ t.pc = "updateDoc"
    /\ chats' = [chats EXCEPT ![t.chat].lastMessageAt = @ + 1,
                              ![t.chat].participants = <<t.user>>]
    /\ Finish(i)
    /\ outcome' = Outcome("send", "ok", t.user, t.chat, <<>>)
    /\ UNCHANGED <<currentUser, signingOut, userDocs, messages, idb, keyCache,
                  initialized, listeners, panel, sub, bookkeeping>>

\* updateDoc(chats/{chatId}, {lastMessageAt}) reaches the backend.
SendTouch(i) ==
    LET t == tasks[i] IN
    /\ t.op = "send" /\ t.pc = "updateDoc"
    /\ chats' = [chats EXCEPT ![t.chat].lastMessageAt = @ + 1]
    /\ Finish(i)
    /\ outcome' = Outcome("send", "ok", t.user, t.chat, <<>>)
    /\ UNCHANGED <<currentUser, signingOut, userDocs, messages, idb, keyCache,
                  initialized, listeners, panel, sub, bookkeeping>>

\* updateDoc(chats/{chatId}) rejects.
SendTouchFail(i) ==
    LET t == tasks[i] IN
    /\ t.op = "send" /\ t.pc = "updateDoc"
    /\ Finish(i)
    /\ outcome' = Outcome("send", "StorageUnavailable", t.user, t.chat, <<>>)
    /\ UNCHANGED <<currentUser, signingOut, backend, idb, keyCache, initialized, listeners, panel, sub,
                  bookkeeping>>

\* ------------------------------------------------------ subscribeToMessages

\* query(messages, orderBy('timestamp', 'asc'), limit(300))
Query(c) == SubSeq(messages[c], 1, Min(Len(messages[c]), MessageLimit))

\* An _openChat that subscribes without ending the previous subscription.
openChatLeaking(c) ==
    /\ activeChatId' = c
    /\ sub' = [chat |-> c, by |-> currentUser, sent |-> FALSE, last |-> <<>>]
    /\ liveMessages' = [liveMessages EXCEPT ![c] = @ + 1]

\* _openChat(chatId): the previous subscription is dropped, a new one starts.
openChat(c) ==
    /\ activeChatId' = c
    /\ sub' = [chat |-> c, by |-> currentUser, sent |-> FALSE, last |-> <<>>]
    /\ liveMessages' = [Unsubscribed EXCEPT ![c] = @ + 1]

\* A click on an item of the chat list.
OpenChat(c) ==
    /\ currentUser # None
    /\ c \in 1..Len(chats)
    /\ openChat(c)
    /\ UNCHANGED <<currentUser, signingOut, backend, idb, keyCache, initialized, listeners,
                  unsubChats, chatList, timers, liveChats, keyInitFor, tasks, bookkeeping>>
    /\ Quiet

\* A click on an item of the chat list as _renderChatList last drew it.
OpenListedChat(c) ==
    /\ c \in chatList
    /\ openChat(c)
    /\ UNCHANGED <<currentUser, signingOut, backend, idb, keyCache, initialized, listeners,
                  unsubChats, chatList, timers, liveChats, keyInitFor, tasks, bookkeeping>>
    /\ Quiet

\* query(chats, where('participants', 'array-contains', uid))
UserChats(uid) == {c \in 1..Len(chats) : uid \in Range(chats[c].participants)}

\* The chat-list subscription fires: _chatList = chats; _renderChatList(chats).
ChatsSnapshot ==
    /\ unsubChats # None
    /\ chatList # UserChats(unsubChats)
    /\ chatList' = UserChats(unsubChats)
    /\ UNCHANGED <<currentUser, signingOut, backend, idb, keyCache, initialized, listeners, sub,
                  unsubChats, activeChatId, timers, liveChats, liveMessages, keyInitFor,
                  tasks, bookkeeping>>
    /\ Quiet

\* The timeout set after createChat fires: _openChat(chatId).
OpenChatTimer(c) ==
    /\ c \in timers
    /\ timers' = timers \ {c}
    /\ openChat(c)
    /\ UNCHANGED <<currentUser, signingOut, backend, idb, keyCache, initialized, listeners,
                  unsubChats, chatList, liveChats, keyInitFor, tasks, bookkeeping>>
    /\ Quiet

\* _handleBack
Back ==
    /\ sub # NoSub
    /\ sub' = NoSub
    /\ liveMessages' = Unsubscribed
    /\ activeChatId' = 0
    /\ UNCHANGED <<currentUser, signingOut, backend, idb, keyCache, initialized, listeners,
                  unsubChats, chatList, timers, liveChats, keyInitFor, tasks, bookkeeping>>
    /\ Quiet

\* onSnapshot fires (first result, or the result changed): the handler runs
\* up to its first await.
Snapshot(n) ==
    LET c == sub.chat
        t == [NewTask EXCEPT !.op = "snap", !.user = currentUser, !.chat = c,
                             !.docs = Query(c)]
    IN
    /\ sub # NoSub
    /\ ~sub.sent \/ sub.last # Query(c)
    /\ sub' = [sub EXCEPT !.sent = TRUE, !.last = Query(c)]
    /\ IF ~CacheHas(c) /\ currentUser = None
       THEN /\ outcome' = Outcome("snap", "NotAuthenticated", None, c, <<>>)
            /\ UNCHANGED <<tasks, cleared>>
       ELSE /\ Running < n
            /\ Spawn(AwaitKey(t))
            /\ cleared' = [cleared EXCEPT ![c] = FALSE]
            /\ Quiet
    /\ UNCHANGED <<currentUser, signingOut, backend, idb, keyCache, initialized, listeners, panel,
                  nextPair, nextIv>>

\* What decryptMessage makes of the document d: its entry of the batch.
Entry(d, aesKey) ==
    LET r == decryptMessage(d.encryptedContent, d.iv, aesKey)
    IN [id |-> d.id, sender |-> d.sender, senderName |-> d.senderName,
        text |-> IF r.ok THEN r.text ELSE Placeholder,
        timestamp |-> d.timestamp]

\* A handler that gives up the whole batch when one decryptMessage throws.
AllOrNothingBatch(docs, aesKey) ==
    IF \E n \in DOMAIN docs : ~decryptMessage(docs[n].encryptedContent, docs[n].iv, aesKey).ok
    THEN <<>>
    ELSE [n \in DOMAIN docs |-> Entry(docs[n], aesKey)]

RECURSIVE DecryptBatch(_, _)
\* The loop over snapshot.docs: one entry per document, the placeholder
\* where decryptMessage throws.
DecryptBatch(docs, aesKey) ==
    IF docs = <<>> THEN <<>>
    ELSE Append(DecryptBatch(SubSeq(docs, 1, Len(docs) - 1), aesKey),
                Entry(docs[Len(docs)], aesKey))

\* The handler decrypted the snapshot: callback(messages).
SnapDeliver(i) ==
    LET t == tasks[i] IN
    /\ t.op = "snap" /\ t.pc = "decrypt"
    /\ Finish(i)
    /\ outcome' = [Outcome("snap", "ok", t.user, t.chat, DecryptBatch(t.docs, t.key))
                       EXCEPT !.docs = t.docs]
    /\ UNCHANGED <<currentUser, signingOut, backend, idb, keyCache, initialized, listeners, panel, sub,
                  bookkeeping>>

\* ------------------------------------------------------------- environment

\* A stored message document is corrupted or tampered with: its ciphertext
\* no longer carries a valid authentication tag.
Corrupt(c, n) ==
    /\ n \in 1..Len(messages[c])
    /\ Atob(messages[c][n].encryptedContent).tag
    /\ messages' = [messages EXCEPT ![c][n].encryptedContent =
                        Btoa([Atob(@) EXCEPT !.tag = FALSE])]
    /\ UNCHANGED <<currentUser, signingOut, userDocs, chats, idb, keyCache,
                  initialized, listeners, panel, sub, tasks, bookkeeping>>
    /\ Quiet

\* ------------------------------------------------------------------ system

KeySteps(i) == InitGet(i) \/ InitPut(i) \/ InitPublish(i)

CreateSteps(i) == CreateFetch(i) \/ CreateAdd(i) \/ CreateAddFail(i) \/ CreateCache(i)

ResolveSteps(i) == ResolveDoc(i) \/ ResolveIdbGet(i) \/ ResolveIdbPut(i)

SendSteps(i) == SendEncrypt(i) \/ SendEncryptFail(i) \/ SendAdd(i) \/ SendTouch(i)

\* The writes of sendMessage that the backend rejects.
SendFailSteps(i) == SendAddFail(i) \/ SendTouchFail(i)

\* One page used by A and B in turn, its calls never overlapping.
Next ==
    \/ \E u \in {"A", "B"} : Login(u)
    \/ InitChat(OneTask)
    \/ LogoutClick
    \/ SignOutDone
    \/ \E p \in ParticipantLists : CreateChat(p, OneTask)
    \/ \E c \in ChatIds, text \in Texts : SendMessage(c, text, OneTask, OneMsg)
    \/ \E c \in ChatIds : OpenChat(c)
    \/ Back
    \/ Snapshot(OneTask)
    \/ \E i \in Slots : KeySteps(i)
    \/ \E i \in Slots : CreateSteps(i)
    \/ \E i \in Slots : ResolveSteps(i)
    \/ \E i \in Slots : SendSteps(i)
    \/ \E i \in Slots : SnapDeliver(i)

Spec == Init /\ [][Next]_vars

\* The page on A's own device, used by A alone, its calls overlapping.
NextRace ==
    \/ Login("A")
    \/ InitChat(MaxTasks)
    \/ LogoutClick
    \/ SignOutDone
    \/ CreateChat(<<"B", "C">>, MaxTasks)
    \/ \E c \in ChatIds : OpenChat(c)
    \/ Back
    \/ Snapshot(MaxTasks)
    \/ \E i \in Slots : KeySteps(i)
    \/ \E i \in Slots : CreateSteps(i)
    \/ \E i \in Slots : ResolveDoc(i) \/ ResolveIdbGet(i)
    \/ \E i \in Slots : SnapDeliver(i)

SpecRace == Init /\ [][NextRace]_vars

\* The pair u holds once initUserChatKeys ran for u on this page: the first
\* pair of A, and the second of B, whose first belongs to another device.
PagePair(u) == KeyPair(<<u, IF u = "A" THEN 1 ELSE 2>>)

\* The chat A created with B and C.
FirstChat ==
    LET uids == AllUids("A", <<"B", "C">>)
        pair == [u \in Users |-> IF u = "C" THEN KeyPair(<<u, 1>>) ELSE PagePair(u)]
    IN ChatDoc([NewTask EXCEPT !.op = "create", !.user = "A", !.uids = uids,
                               !.pks = [n \in DOMAIN uids |-> pair[uids[n]].publicKey]],
               ChatKey(1))

\* The page, loaded anew, after A and B each ran initUserChatKeys on it, A
\* created a chat with B and C, and everyone signed out.
InitMsg ==
    /\ currentUser = None
    /\ signingOut = FALSE
    /\ userDocs = [u \in Users |->
                      [exists |-> TRUE,
                       chatPublicKey |->
                           exportPublicKey(IF u = "C" THEN KeyPair(<<u, 1>>).publicKey
                                           ELSE PagePair(u).publicKey)]]
    /\ chats = <<FirstChat>>
    /\ messages = [c \in ChatIds |-> <<>>]
    /\ idb = [u \in Users |-> IF u = "C" THEN NoStored ELSE ExportJwkPair(PagePair(u))]
    /\ keyCache = ClearedCache
    /\ initialized = FALSE
    /\ listeners = 0
    /\ unsubChats = None
    /\ chatList = {}
    /\ activeChatId = 0
    /\ timers = {}
    /\ liveChats = 0
    /\ liveMessages = [c \in ChatIds |-> 0]
    /\ keyInitFor = None
    /\ sub = NoSub
    /\ tasks = [i \in Slots |-> Idle]
    /\ nextPair = [u \in Users |-> IF u = "B" THEN 2 ELSE 1]
    /\ nextIv = 0
    /\ cleared = [c \in ChatIds |-> FALSE]
    /\ outcome = NoOutcome

\* A and B exchanging messages in the existing chat.
NextMsg ==
    \/ \E u \in {"A", "B"} : Login(u)
    \/ LogoutClick
    \/ SignOutDone
    \/ \E c \in ChatIds, text \in Texts : SendMessage(c, text, OneTask, MaxMsgs)
    \/ \E c \in ChatIds : OpenChat(c)
    \/ Back
    \/ Snapshot(OneTask)
    \/ \E i \in Slots : ResolveDoc(i) \/ ResolveIdbGet(i)
    \/ \E i \in Slots : SendSteps(i)
    \/ \E i \in Slots : SnapDeliver(i)

SpecMsg == InitMsg /\ [][NextMsg]_vars

\* A and B using the existing chat, the calls of the page overlapping.
NextPair ==
    \/ \E u \in {"A", "B"} : Login(u)
    \/ LogoutClick
    \/ SignOutDone
    \/ \E c \in ChatIds, text \in Texts : SendMessage(c, text, MaxTasks, OneMsg)
    \/ \E c \in ChatIds : OpenChat(c)
    \/ Back
    \/ Snapshot(MaxTasks)
    \/ \E i \in Slots : ResolveDoc(i) \/ ResolveIdbGet(i)
    \/ \E i \in Slots : SendSteps(i)
    \/ \E i \in Slots : SnapDeliver(i)

SpecPair == InitMsg /\ [][NextPair]_vars

\* The page on which A has just created an account: A's user document is
\* still to be written by register.
InitRegister ==
    /\ currentUser = None
    /\ signingOut = FALSE
    /\ userDocs = [u \in Users |->
                      IF u = "A"
                      THEN [exists |-> FALSE, chatPublicKey |-> NoPublicKey]
                      ELSE [exists |-> TRUE,
                            chatPublicKey |-> exportPublicKey(KeyPair(<<u, 1>>).publicKey)]]
    /\ chats = <<>>
    /\ messages = [c \in ChatIds |-> <<>>]
    /\ idb = [u \in Users |-> NoStored]
    /\ keyCache = ClearedCache
    /\ initialized = FALSE
    /\ listeners = 0
    /\ unsubChats = None
    /\ chatList = {}
    /\ activeChatId = 0
    /\ timers = {}
    /\ liveChats = 0
    /\ liveMessages = [c \in ChatIds |-> 0]
    /\ keyInitFor = None
    /\ sub = NoSub
    /\ tasks = [i \in Slots |-> Idle]
    /\ nextPair = [u \in Users |-> IF u = "A" THEN 0 ELSE 1]
    /\ nextIv = 0
    /\ cleared = [c \in ChatIds |-> FALSE]
    /\ outcome = NoOutcome

\* A registers and uses the chat; register's setDoc and initChat race.
NextRegister ==
    \/ Login("A")
    \/ RegisterDoc("A")
    \/ InitChat(OneTask)
    \/ LogoutClick
    \/ SignOutDone
    \/ \E p \in ParticipantLists : CreateChat(p, OneTask)
    \/ \E c \in ChatIds : OpenChat(c)
    \/ Back
    \/ Snapshot(OneTask)
    \/ \E i \in Slots : KeySteps(i)
    \/ \E i \in Slots : CreateSteps(i)
    \/ \E i \in Slots : ResolveDoc(i) \/ ResolveIdbGet(i)
    \/ \E i \in Slots : SnapDeliver(i)

SpecRegister == InitRegister /\ [][NextRegister]_vars

\* A and B using the existing chat, with a backend that can reject a write.
NextStore ==
    \/ NextMsg
    \/ \E i \in Slots : SendFailSteps(i)

SpecStore == InitMsg /\ [][NextStore]_vars

\* -------------------------------------- encryptMessage / decryptMessage

\* The characters of the plaintexts: a letter, white space, and a lone
\* surrogate, which a JavaScript string can hold.
Alphabet == {"a", Space, Surrogate}

Plaintexts == UNION {[1..n -> Alphabet] : n \in 0..MaxLen}

\* A caller hands plaintext and aesKey to encryptMessage.
CryptStart(plaintext, k) ==
    /\ Running < OneTask
    /\ Spawn([NewTask EXCEPT !.op = "crypt", !.pc = "encrypt", !.text = plaintext,
                             !.key = ChatKey(k)])
    /\ UNCHANGED <<currentUser, signingOut, backend, idb, keyCache, initialized, listeners, panel, sub,
                  bookkeeping>>
    /\ Quiet

\* encryptMessage(plaintext, aesKey) with the IV that getRandomValues drew.
CryptEncrypt(i) ==
    LET t == tasks[i] IN
    /\ t.op = "crypt" /\ t.pc = "encrypt"
    /\ nextIv < MaxIvs
    /\ nextIv' = nextIv + 1
    /\ tasks' = [tasks EXCEPT ![i].pc = "decrypt",
                              ![i].enc = encryptMessage(t.text, t.key, nextIv + 1)]
    /\ UNCHANGED <<currentUser, signingOut, backend, idb, keyCache, initialized, listeners, panel, sub,
                  nextPair, cleared>>
    /\ Quiet

\* Between the two calls the ciphertext loses its integrity, the IV is
\* replaced by another one, or another key is taken for decryption.
CryptTamper(i) ==
    LET t == tasks[i] IN
    /\ t.op = "crypt" /\ t.pc = "decrypt"
    /\ \/ /\ Atob(t.enc.ciphertext).tag
          /\ tasks' = [tasks EXCEPT ![i].enc.ciphertext =
                                        Btoa([Atob(@) EXCEPT !.tag = FALSE])]
       \/ \E n \in 0..MaxIvs :
             /\ Btoa(n) # t.enc.iv
             /\ tasks' = [tasks EXCEPT ![i].enc.iv = Btoa(n)]
       \/ \E k \in 1..MaxKeys :
             /\ ChatKey(k) # t.key
             /\ tasks' = [tasks EXCEPT ![i].key = ChatKey(k)]
    /\ UNCHANGED <<currentUser, signingOut, backend, idb, keyCache, initialized, listeners, panel, sub,
                  bookkeeping>>
    /\ Quiet

\* decryptMessage(ciphertext, iv, aesKey) returns its text or throws.
CryptDecrypt(i) ==
    LET t == tasks[i]
        r == decryptMessage(t.enc.ciphertext, t.enc.iv, t.key)
    IN
    /\ t.op = "crypt" /\ t.pc = "decrypt"
    /\ Finish(i)
    /\ outcome' = [Outcome("decrypt", IF r.ok THEN "ok" ELSE "DecryptionFailed",
                           None, 0, r.text) EXCEPT !.docs = t.text]
    /\ UNCHANGED <<currentUser, signingOut, backend, idb, keyCache, initialized, listeners, panel, sub,
                  bookkeeping>>

\* encryptMessage and decryptMessage called on plaintexts and keys of choice.
NextCrypt ==
    \/ \E plaintext \in Plaintexts, k \in 1..MaxKeys : CryptStart(plaintext, k)
    \/ \E i \in Slots : CryptEncrypt(i)
    \/ \E i \in Slots : CryptTamper(i)
    \/ \E i \in Slots : CryptDecrypt(i)

SpecCrypt == InitMsg /\ [][NextCrypt]_vars

\* The page on A's own device: A signs in and out and starts every chat with
\* one click on Start Chat, never twice with the same members.
NextClick ==
    \/ Login("A")
    \/ InitChat(MaxTasks)
    \/ LogoutClick
    \/ SignOutDone
    \/ \E p \in ParticipantLists : StartChatClick(p, MaxTasks)
    \/ \E i \in Slots : KeySteps(i)
    \/ \E i \in Slots : CreateSteps(i)

SpecClick == Init /\ [][NextClick]_vars

\* The chat panel of the page: A and B sign in and out, switch to the chat
\* view, start chats with the Start Chat button, open them, go back; no
\* message is sent or read.
NextPanel ==
    \/ \E u \in {"A", "B"} : Login(u)
    \/ InitChat(MaxTasks)
    \/ LogoutClick
    \/ SignOutDone
    \/ \E p \in ParticipantLists : StartChatClick(p, MaxTasks)
    \/ ChatsSnapshot
    \/ \E c \in ChatIds : OpenChatTimer(c)
    \/ \E c \in ChatIds : OpenListedChat(c)
    \/ Back
    \/ \E i \in Slots : KeySteps(i)
    \/ \E i \in Slots : CreateSteps(i)

SpecPanel == Init /\ [][NextPanel]_vars

\* The same, with a backend whose message documents can get corrupted.
NextBatch ==
    \/ NextMsg
    \/ \E c \in ChatIds, n \in 1..MaxMsgs : Corrupt(c, n)

SpecBatch == InitMsg /\ [][NextBatch]_vars

\* ------------------------------------------------- what the backend reveals

\* The wrapped chat keys and the message documents the backend holds.
StoredWrapped ==
    UNION {Range(chats[c].encryptedKeys) : c \in 1..Len(chats)}

StoredMessages == UNION {Range(messages[c]) : c \in ChatIds}

\* An observer of the backend holds no participant's private key: of the RSA
\* private keys it has only the one that belongs to no generated pair.
ObserverOpens(wrapped) == decryptChatKey(wrapped, NoPair.privateKey).ok

ObserverKeys ==
    {NoKey} \cup {decryptChatKey(w, NoPair.privateKey).key :
                     w \in {x \in StoredWrapped : ObserverOpens(x)}}

\* The observer reads a message document whose bytes are sealed under no key
\* or under a key it derived.
ObserverReads(m) == \E k \in ObserverKeys : Atob(m.encryptedContent).gcm = k.aes

\* The public halves of the pairs generated so far, exported.
ExportedPublicKeys ==
    UNION {{exportPublicKey(KeyPair(<<u, n>>).publicKey) : n \in 1..nextPair[u]} :
              u \in Users}

\* ----------------------------------------------------------------- claims

\* C1: in every reachable state the backend holds only exported public keys,
\* chat keys wrapped under a generated RSA public key, and message bytes
\* sealed under a chat key, so that an observer of the backend who holds no
\* participant's private key opens no wrapped chat key and reads no message.
C1_BackendHoldsNoSecret ==
    /\ \A u \in Users :
          userDocs[u].chatPublicKey \in ExportedPublicKeys \cup {NoPublicKey}
    /\ \A w \in StoredWrapped : ~ObserverOpens(w)
    /\ ObserverKeys = {NoKey}
    /\ \A m \in StoredMessages : ~ObserverReads(m)

\* A key was published from this page, a chat exists and holds a message.
C1_Witness ==
    /\ userDocs["A"].chatPublicKey # NoPublicKey
    /\ StoredWrapped # {}
    /\ StoredMessages # {}

\* The uid whose directory entry a createChat call looks up next.
NextLookup(t) == t.uids[Len(t.pks) + 1]

\* C2: when the directory lookup of a createChat call meets a member of the
\* participant set (the creator included, at any position of the list) that
\* has no published chatPublicKey, the call ends there with KeyNotFound and
\* has written no chat document and no cache entry.
C2_MissingKeyRefusal ==
    [][\A i \in Slots :
          (/\ tasks[i].op = "create" /\ tasks[i].pc = "fetch"
           /\ userDocs[NextLookup(tasks[i])].chatPublicKey = NoPublicKey
           /\ tasks'[i] # tasks[i])
          => /\ outcome' = Outcome("create", "KeyNotFound", tasks[i].user, 0, <<>>)
             /\ tasks'[i] = Idle
             /\ tasks[i].chat = 0 /\ tasks[i].key = NoKey
             /\ chats' = chats
             /\ keyCache' = keyCache]_vars

\* B, whose own key is published, called createChat and the lookup of a
\* later member of the list found no key.
C2_Witness ==
    /\ outcome = Outcome("create", "KeyNotFound", "B", 0, <<>>)
    /\ userDocs["B"].chatPublicKey # NoPublicKey
    /\ userDocs["A"].chatPublicKey = NoPublicKey
    /\ chats = <<>>

\* The place of the first occurrence of x in the sequence s.
FirstAt(s, x) == CHOOSE n \in DOMAIN s : s[n] = x /\ \A m \in 1..(n - 1) : s[m] # x

\* s lists the union of the creator and the requested ids, each once, in
\* the order of their first occurrence.
IsDedupUnion(s, creator, requested) ==
    LET all == <<creator>> \o requested IN
    /\ Range(s) = Range(all)
    /\ Cardinality(Range(s)) = Len(s)
    /\ \A m, n \in DOMAIN s : m < n => FirstAt(all, s[m]) < FirstAt(all, s[n])

\* C3: every chat document in the store lists as participants the
\* de-duplicated union of its creator and the requested ids, and its
\* encryptedKeys map has an entry, wrapped under a key of that user, for
\* exactly the users of that list.
C3_ChatDocComplete ==
    \A c \in 1..Len(chats) :
        LET d == chats[c] IN
        /\ \E p \in ParticipantLists : IsDedupUnion(d.participants, d.createdBy, p)
        /\ DOMAIN d.encryptedKeys = Range(d.participants)
        /\ \A u \in DOMAIN d.encryptedKeys :
              /\ d.encryptedKeys[u] # NoWrapped
              /\ Atob(d.encryptedKeys[u]).oaep[1] = u

\* A created a chat with a list that named A: the document lists A once.
C3_Witness ==
    \E c \in 1..Len(chats) :
        /\ chats[c].createdBy = "A"
        /\ chats[c].participants = <<"A", "C">>
        /\ DOMAIN chats[c].encryptedKeys = {"A", "C"}

\* The key createChat generated for the chat c (generateChatKey in CreateAdd).
GeneratedKey(c) == ChatKey(c)

\* The RSA private key on u's own device: this browser's IndexedDB for A,
\* the pair behind the published key for the users of other devices.
OwnPrivateKey(u) ==
    IF u = "A" THEN ImportJwkPair(idb["A"]).privateKey
    ELSE KeyPair(<<u, 1>>).privateKey

\* C4: for a chat created with participants {A, B, C}, every key resolution a
\* participant performs on their own device yields the key createChat
\* generated for the chat: no such resolution fails to unwrap, the wrapped
\* key of each participant opens under that participant's private key, and
\* whatever key the page holds for the chat is the generated one.
C4_SameKeyForAll ==
    \A c \in 1..Len(chats) :
        Range(chats[c].participants) = {"A", "B", "C"} =>
            /\ ~(/\ outcome.op \in {"send", "snap"} /\ outcome.chat = c
                  /\ outcome.user = "A" /\ outcome.status = "UnwrapFailed")
            /\ keyCache[c] \in {NoKey, GeneratedKey(c)}
            /\ \A i \in Slots :
                  (Resolving(tasks[i]) /\ tasks[i].chat = c)
                      => tasks[i].key \in {NoKey, GeneratedKey(c)}
            /\ \A u \in {"B", "C"} :
                  decryptChatKey(chats[c].encryptedKeys[u], OwnPrivateKey(u))
                      = [ok |-> TRUE, key |-> GeneratedKey(c)]

\* The user u is signed in and is no participant of the existing chat c.
Outsider(u, c) ==
    /\ u \in Users
    /\ c \in 1..Len(chats)
    /\ u \notin Range(chats[c].participants)

\* C5: a key resolution performed for a chat while a user outside its
\* participant set is signed in yields no key: the call that awaits it
\* holds none afterwards and does not complete.
C5_OutsiderGetsNoKey ==
    /\ \A i \in Slots :
          (Resolving(tasks[i]) /\ Outsider(tasks[i].user, tasks[i].chat))
              => tasks[i].key = NoKey
    /\ (outcome.op \in {"send", "snap"} /\ Outsider(outcome.user, outcome.chat))
          => outcome.status \in {"NotAParticipant", "nothing"}

\* C6: in every state in which no user is signed in, _keyCache is empty.
C6_CacheEmptyWhenSignedOut ==
    currentUser = None => keyCache = ClearedCache

\* The step appends the document d to the messages of chat c.
Appends(c, d) == messages' = [messages EXCEPT ![c] = Append(@, d)]

\* C7: a message document is written only by a sendMessage call whose
\* encryptMessage has completed, and its encryptedContent and iv are the
\* AES-GCM ciphertext of the trimmed text under the chat's key and the IV
\* drawn for it; the bytes of the text itself are never the content.
C7_EncryptBeforeWrite ==
    [][messages' # messages =>
          \E i \in Slots :
              LET t == tasks[i]
                  d == messages'[t.chat][Len(messages'[t.chat])]
              IN
              /\ t.op = "send" /\ t.pc = "addDoc"
              /\ Len(messages'[t.chat]) = Len(messages[t.chat]) + 1
              /\ \E n \in 1..nextIv :
                    t.enc = encryptMessage(Trim(t.text), GeneratedKey(t.chat), n)
              /\ Appends(t.chat, d)
              /\ d.encryptedContent = t.enc.ciphertext
              /\ d.iv = t.enc.iv
              /\ d.sender = t.user
              /\ Atob(d.encryptedContent).data = TextEncode(Trim(t.text))
              /\ Atob(d.encryptedContent).gcm # NoKey.aes]_vars

\* A sendMessage call completed and its document is in the store.
C7_Witness ==
    /\ outcome.op = "send" /\ outcome.status = "ok"
    /\ Len(messages[outcome.chat]) = 1
    /\ messages[outcome.chat][1].sender = outcome.user

\* The errors of _getChatKey and of encryptMessage, as sendMessage rethrows them.
SendErrors ==
    {"NotAuthenticated", "ChatNotFound", "NotAParticipant", "UnwrapFailed", "EncryptFailed"}

\* Where a sendMessage call stands before its first write.
BeforeWrite == {"getDoc", "idbGet", "idbPut", "encrypt"}

\* C8: a sendMessage call that cannot obtain the chat key or whose encryption
\* fails ends with that error, having written nothing: its last step leaves
\* the message store and the chat documents unchanged and it had not reached
\* a write before; a call reaches its write only holding a resolved key and
\* the ciphertext made with it, and ends before the write only with an error.
C8_FailClosed ==
    [][/\ (outcome'.op = "send" /\ outcome'.status \in SendErrors)
            => /\ messages' = messages /\ chats' = chats
               /\ \/ currentUser = None /\ tasks' = tasks
                  \/ \E i \in Slots : /\ tasks[i].op = "send"
                                       /\ tasks[i].pc \in BeforeWrite
                                       /\ tasks'[i] = Idle
       /\ \A i \in Slots :
            /\ (tasks[i].op = "send" /\ tasks[i].pc \in BeforeWrite /\ tasks'[i] = Idle)
                  => (outcome'.op = "send" /\ outcome'.status \in SendErrors)
            /\ (tasks'[i].op = "send" /\ tasks'[i].pc = "addDoc" /\ tasks[i] # tasks'[i])
                  => /\ tasks'[i].key # NoKey
                     /\ \E n \in 1..nextIv' :
                           tasks'[i].enc =
                               encryptMessage(Trim(tasks[i].text), tasks'[i].key, n)]_vars

\* A participant's sendMessage ended with the unwrap error and no message
\* document exists.
C8_Witness ==
    /\ outcome.op = "send" /\ outcome.status = "UnwrapFailed"
    /\ outcome.user \in Range(chats[outcome.chat].participants)
    /\ StoredMessages = {}

\* The text the sender of the stored document m passed to encryptMessage.
SentText(m) == TextDecode(Atob(m.encryptedContent).data)

\* B's live subscription to chat c was just handed the batch of the
\* snapshot that is current: no further snapshot is due until the query
\* result changes.
DeliveredCurrent(c) ==
    /\ outcome.op = "snap" /\ outcome.status = "ok"
    /\ outcome.user = "B" /\ outcome.chat = c
    /\ currentUser = "B"
    /\ sub.chat = c /\ sub.by = "B" /\ sub.sent
    /\ sub.last = Query(c) /\ outcome.docs = Query(c)

\* C9: every message A stored in the chat with B reaches B's live
\* subscription: once the callback has been handed the batch of the current
\* snapshot, that batch holds, for every message document A wrote, a record
\* with A as sender and the trimmed text A sent, however many messages the
\* chat holds.
C9_EveryMessageDelivered ==
    \A c \in 1..Len(chats) :
        DeliveredCurrent(c) =>
            \A m \in Range(messages[c]) :
                m.sender = "A" =>
                    \E e \in Range(outcome.batch) :
                        e.id = m.id /\ e.sender = "A" /\ e.text = SentText(m)

\* The document d decrypts under aesKey: sealed under it with its own IV
\* and an intact tag.
Intact(d, aesKey) ==
    LET c == Atob(d.encryptedContent) IN
    c.gcm = aesKey.aes /\ c.iv = Atob(d.iv) /\ c.tag

\* C10: the batch handed to the callback for a snapshot processed with the
\* chat's key has one entry per document of the snapshot, in the snapshot's
\* order, oldest first; the entry of a document that fails to decrypt
\* carries '[Unable to decrypt]', every other entry its own plaintext.
C10_BatchPerMessage ==
    (outcome.op = "snap" /\ outcome.status = "ok") =>
        LET docs == outcome.docs
            batch == outcome.batch
            aesKey == GeneratedKey(outcome.chat)
        IN
        /\ Len(batch) = Len(docs)
        /\ \A n \in DOMAIN docs :
              /\ batch[n].id = docs[n].id
              /\ batch[n].sender = docs[n].sender
              /\ batch[n].senderName = docs[n].senderName
              /\ batch[n].timestamp = docs[n].timestamp
              /\ batch[n].text = IF Intact(docs[n], aesKey) THEN SentText(docs[n])
                                 ELSE Placeholder
        /\ \A m, n \in DOMAIN batch : m < n => batch[m].timestamp < batch[n].timestamp

\* A batch of two: the older document failed to decrypt and shows the
\* placeholder, the newer one shows its text.
C10_Witness ==
    /\ outcome.op = "snap" /\ outcome.status = "ok"
    /\ Len(outcome.docs) = 2
    /\ ~Intact(outcome.docs[1], GeneratedKey(outcome.chat))
    /\ Intact(outcome.docs[2], GeneratedKey(outcome.chat))
    /\ outcome.batch[1].text = Placeholder
    /\ outcome.batch[2].text = <<"a">>

\* C11: getUserKeyPair is idempotent on A's own device: at most one pair is
\* ever generated for A, the calls in flight for A hold the same pair, and
\* the pair IndexedDB holds is that one.
C11_OnePairPerDevice ==
    /\ nextPair["A"] <= 1
    /\ \A i, j \in Slots :
          (/\ tasks[i].user = "A" /\ tasks[j].user = "A"
           /\ tasks[i].pair # NoPair /\ tasks[j].pair # NoPair)
              => tasks[i].pair = tasks[j].pair
    /\ idb["A"] \in {NoStored, ExportJwkPair(KeyPair(<<"A", 1>>))}

\* The errors with which _getChatKey ends for a signed-in caller.
ResolveErrors == {"ChatNotFound", "NotAParticipant", "UnwrapFailed"}

\* The call in slot i went through the chat document and the unwrap and
\* holds the key it got.
Unwrapped(t) == Resolving(t) /\ t.wrapped # NoWrapped /\ t.key # NoKey

\* C12: key resolutions of one signed-in participant for one chat that
\* overlap in any way all end with the key generated for the chat: none
\* fails, each leaves that key in the cache, two calls never hold different
\* keys, and a write to an entry that is present never changes its key.
C12_ConcurrentResolutionsAgree ==
    [][/\ \A i \in Slots :
            (Resolving(tasks[i]) /\ tasks[i].pc \in {"idbGet", "idbPut"}
             /\ tasks'[i] # tasks[i])
                => /\ Unwrapped(tasks'[i])
                   /\ tasks'[i].key = GeneratedKey(tasks[i].chat)
                   /\ keyCache'[tasks[i].chat] = tasks'[i].key
       /\ \A i, j \in Slots :
            (/\ Resolving(tasks'[i]) /\ Resolving(tasks'[j])
             /\ tasks'[i].chat = tasks'[j].chat /\ tasks'[i].user = tasks'[j].user
             /\ tasks'[i].key # NoKey /\ tasks'[j].key # NoKey)
                => tasks'[i].key = tasks'[j].key
       /\ (/\ outcome'.op \in {"send", "snap"}
           /\ outcome'.chat \in 1..Len(chats)
           /\ outcome'.user \in Range(chats[outcome'.chat].participants))
            => outcome'.status \notin ResolveErrors
       /\ \A c \in ChatIds :
            (keyCache[c] # NoKey /\ keyCache'[c] # NoKey) => keyCache'[c] = keyCache[c]]_vars

\* Two overlapping resolutions of one user for one chat both unwrapped the
\* key, and the cache holds it.
C12_Witness ==
    \E i, j \in Slots :
        /\ i # j
        /\ Unwrapped(tasks[i]) /\ Unwrapped(tasks[j])
        /\ tasks[i].chat = tasks[j].chat /\ tasks[i].user = tasks[j].user
        /\ tasks[i].user = currentUser
        /\ tasks[i].key = tasks[j].key
        /\ keyCache[tasks[i].chat] = tasks[i].key

\* A call of _getChatKey by a signed-in user starts in this step, in slot i.
ResolutionStarts(i) == tasks[i] = Idle /\ Resolving(tasks'[i])

\* C13: the first key resolution that starts after clearChatKeyCache for a
\* chat that was cached at the clear is not served from memory: it goes on
\* to fetch the chat document and to unwrap the key again.
C13_ClearForcesUnwrap ==
    [][\A i \in Slots :
          (ResolutionStarts(i) /\ cleared[tasks'[i].chat])
              => /\ tasks'[i].pc = "getDoc"
                 /\ tasks'[i].key = NoKey]_vars

\* The call in slot i got its key from _keyCache.
ServedFromCache(t) == Resolving(t) /\ t.key # NoKey /\ t.wrapped = NoWrapped

\* C14: a key resolution for a chat that _keyCache holds returns the cached
\* key at once: it reads no chat document and no stored key pair, generates
\* no pair, unwraps nothing and leaves the cache as it was, and the call
\* never goes back to any of these steps.
C14_CacheHitIsPure ==
    [][\A i \in Slots :
          /\ (ResolutionStarts(i) /\ CacheHas(tasks'[i].chat))
                => /\ tasks'[i].key = keyCache[tasks'[i].chat]
                   /\ tasks'[i].wrapped = NoWrapped
                   /\ tasks'[i].pair = NoPair
                   /\ tasks'[i].pc \notin {"getDoc", "idbGet", "idbPut"}
                   /\ keyCache' = keyCache
                   /\ idb' = idb
                   /\ nextPair' = nextPair
          /\ (ServedFromCache(tasks[i]) /\ tasks'[i] # Idle)
                => /\ ServedFromCache(tasks'[i])
                   /\ tasks'[i].key = tasks[i].key
                   /\ tasks'[i].pair = NoPair
                   /\ tasks'[i].pc \notin {"getDoc", "idbGet", "idbPut"}]_vars

\* A call was served from the cache and is about to use the key.
C14_Witness ==
    \E i \in Slots :
        /\ ServedFromCache(tasks[i])
        /\ tasks[i].key = keyCache[tasks[i].chat]
        /\ tasks[i].pc \in {"encrypt", "decrypt"}

\* createChat in slot i returns the id of the chat it stored, in this step.
CreateSucceeds(i, c) ==
    /\ tasks[i].op = "create" /\ tasks[i].pc = "cache" /\ tasks[i].chat = c
    /\ outcome' = Outcome("create", "ok", tasks[i].user, c, <<>>)

\* _getChatKey(c) in slot i unwrapped the key, in this step.
ResolutionSucceeds(i, c) ==
    /\ Resolving(tasks[i]) /\ tasks[i].pc \in {"idbGet", "idbPut"} /\ tasks[i].chat = c
    /\ Unwrapped(tasks'[i])

\* clearChatKeyCache ran in this step (the logout handler).
CacheCleared == ~signingOut /\ signingOut' /\ keyCache' = ClearedCache

\* A call ended with an error in this step.
CallFailed == outcome' # NoOutcome /\ outcome'.status \notin {"ok", "nothing"}

\* C15: per chat the cache goes Unresolved -> CachedPlaintext -> Unresolved
\* and nowhere else: an entry appears only when createChat or a key
\* resolution for that chat succeeds and then holds the key that call
\* returns, it disappears only when clearChatKeyCache runs, a call that
\* fails leaves the cache alone, and an entry never changes its key.
C15_CacheStateMachine ==
    [][/\ \A c \in ChatIds :
            /\ (keyCache[c] = NoKey /\ keyCache'[c] # NoKey)
                  => \E i \in Slots :
                        /\ CreateSucceeds(i, c) \/ ResolutionSucceeds(i, c)
                        /\ keyCache'[c] = IF tasks[i].op = "create" THEN tasks[i].key
                                          ELSE tasks'[i].key
            /\ (keyCache[c] # NoKey /\ keyCache'[c] = NoKey) => CacheCleared
            /\ (keyCache[c] # NoKey /\ keyCache'[c] # NoKey) => keyCache'[c] = keyCache[c]
       /\ CallFailed => keyCache' = keyCache
       /\ (~signingOut /\ signingOut') => keyCache' = ClearedCache]_vars

\* An entry that a successful call added was removed by the logout handler:
\* the chat is unresolved again.
C15_Witness ==
    /\ signingOut
    /\ \E c \in ChatIds : cleared[c] /\ keyCache[c] = NoKey /\ c \in 1..Len(chats)

\* The snapshot handler in slot i waits for _getChatKey, and the subscription
\* that called it has been unsubscribed.
Orphaned(i) ==
    /\ tasks[i].op = "snap" /\ tasks[i].pc \in {"getDoc", "idbGet", "idbPut"}
    /\ sub.chat # tasks[i].chat

\* C16: closing or switching the chat view does not cancel the key
\* resolution its subscription started: the resolution can still take each
\* of its steps, a successful unwrap still fills the cache, and the next
\* snapshot handler for that chat is then served from the cache.
C16_OrphanedResolutionCompletes ==
    /\ [](\A i \in Slots : Orphaned(i) => ENABLED ResolveSteps(i))
    /\ [][/\ (sub # NoSub /\ sub' # sub /\ ~sub'.sent) => tasks' = tasks
          /\ \A i \in Slots :
                /\ (Orphaned(i) /\ tasks'[i] # tasks[i] /\ tasks'[i] # Idle
                    /\ tasks'[i].pc = "decrypt")
                      => keyCache'[tasks[i].chat] = tasks'[i].key
                /\ (tasks[i] = Idle /\ tasks'[i].op = "snap" /\ CacheHas(tasks'[i].chat))
                      => /\ tasks'[i].pc = "decrypt"
                         /\ tasks'[i].key = keyCache[tasks'[i].chat]]_vars

\* The chat view was closed while its handler resolved the key; the
\* resolution finished all the same and the cache holds the key.
C16_Witness ==
    \E i \in Slots :
        /\ tasks[i].op = "snap" /\ tasks[i].pc = "decrypt"
        /\ tasks[i].wrapped # NoWrapped
        /\ sub = NoSub
        /\ currentUser = tasks[i].user
        /\ keyCache[tasks[i].chat] = tasks[i].key

\* C17: a crypto operation attempted while no user is signed in fails with
\* NotAuthenticated and has no effect: the call ends with that error and an
\* empty batch, and no call made without a user ever holds a chat key or
\* decrypts a snapshot, whatever the cache holds.
C17_NoUserNoCrypto ==
    /\ (outcome # NoOutcome /\ outcome.user = None)
          => /\ outcome.status = "NotAuthenticated"
             /\ outcome.batch = <<>>
    /\ \A i \in Slots : (tasks[i] # Idle /\ tasks[i].user = None) => tasks[i].key = NoKey

\* initUserChatKeys in slot i ends in this step, its updateDoc rejected
\* because users/{uid} does not exist.
PublishRejected(i) ==
    /\ tasks[i].op = "init" /\ tasks[i].pc = "publish" /\ tasks'[i] = Idle
    /\ ~userDocs[tasks[i].user].exists

\* C18: initUserChatKeys whose updateDoc is rejected because the user
\* document does not exist yet returns normally: the caller sees no error,
\* the user directory is unchanged, and IndexedDB keeps the pair it holds
\* for the user.
C18_MissingDocSwallowed ==
    [][\A i \in Slots :
          PublishRejected(i)
              => /\ outcome' = Outcome("init", "ok", tasks[i].user, 0, <<>>)
                 /\ userDocs' = userDocs
                 /\ idb' = idb
                 /\ idb[tasks[i].user] # NoStored]_vars

\* initUserChatKeys returned normally to a user who has no user document
\* yet; the generated pair is in IndexedDB and nothing is published.
C18_Witness ==
    /\ outcome = Outcome("init", "ok", "A", 0, <<>>)
    /\ ~userDocs["A"].exists
    /\ idb["A"] = ExportJwkPair(KeyPair(<<"A", 1>>))

\* initUserChatKeys(u) of the page is still running.
InitRunning(u) == \E j \in Slots : tasks[j].op = "init" /\ tasks[j].user = u

\* C19: the user's key initialisation has completed before a createChat,
\* a sendMessage or a key resolution of the session starts: none of them
\* starts while the initUserChatKeys that initChat called is still running.
C19_InitBeforeUse ==
    [][\A i \in Slots :
          (tasks[i] = Idle /\ tasks'[i].op \in {"create", "send", "snap"}
           /\ tasks'[i].user # None)
              => ~InitRunning(tasks'[i].user)]_vars

\* C20: a createChat that succeeds leaves the generated key in the cache
\* under the id of the chat document it stored, so a resolution for that
\* chat that starts while the entry is there is served from the cache; no
\* entry is written for a chat whose document is not stored yet, and a
\* createChat that fails changes neither the cache nor the chat store.
C20_CreatorCacheAfterPersist ==
    [][/\ (outcome'.op = "create" /\ outcome'.status = "ok")
            => /\ outcome'.chat \in 1..Len(chats)
               /\ chats[outcome'.chat].createdBy = outcome'.user
               /\ keyCache'[outcome'.chat] = GeneratedKey(outcome'.chat)
       /\ \A c \in ChatIds :
            /\ (keyCache'[c] # keyCache[c] /\ keyCache'[c] # NoKey) => c \in 1..Len(chats)
            /\ \A i \in Slots :
                  (/\ ResolutionStarts(i) /\ tasks'[i].chat = c
                   /\ c \in 1..Len(chats) /\ keyCache[c] = GeneratedKey(c))
                      => /\ tasks'[i].key = GeneratedKey(c)
                         /\ tasks'[i].wrapped = NoWrapped
       /\ (outcome'.op = "create" /\ outcome'.status # "ok")
            => /\ keyCache' = keyCache
               /\ chats' = chats]_vars

\* createChat just returned the id of the chat it stored to its creator,
\* who is still signed in, and the cache holds the generated key under it.
C20_Witness ==
    /\ outcome.op = "create" /\ outcome.status = "ok"
    /\ outcome.user = currentUser /\ ~signingOut
    /\ chats[outcome.chat].createdBy = currentUser
    /\ keyCache[outcome.chat] = GeneratedKey(outcome.chat)

\* sendMessage(c, ...) in slot i is at its updateDoc.
Touching(i, c) == tasks[i].op = "send" /\ tasks[i].pc = "updateDoc" /\ tasks[i].chat = c

\* C21: a chat document, once stored, stays in the store with the
\* participants and the encryptedKeys it was created with; the only step
\* that changes it is the updateDoc of a sendMessage for that chat, and that
\* changes nothing but lastMessageAt.
C21_ChatDocImmutable ==
    [][\A c \in 1..Len(chats) :
          /\ c \in 1..Len(chats')
          /\ chats'[c].participants = chats[c].participants
          /\ chats'[c].encryptedKeys = chats[c].encryptedKeys
          /\ chats'[c] # chats[c]
                => /\ \E i \in Slots : Touching(i, c)
                   /\ chats'[c] = [chats[c] EXCEPT !.lastMessageAt = chats'[c].lastMessageAt]]_vars

\* A sendMessage completed for a chat: its document carries a new
\* lastMessageAt and the participants and keys it was created with.
C21_Witness ==
    /\ outcome.op = "send" /\ outcome.status = "ok"
    /\ outcome.chat \in 1..Len(chats)
    /\ chats[outcome.chat].lastMessageAt > 0
    /\ DOMAIN chats[outcome.chat].encryptedKeys = Range(chats[outcome.chat].participants)
    /\ Len(chats[outcome.chat].participants) = 3

\* sendMessage(c, ...) in slot i is at its addDoc.
Adding(i, c) == tasks[i].op = "send" /\ tasks[i].pc = "addDoc" /\ tasks[i].chat = c

\* C22: the message store of a chat is append-only: a step leaves the
\* message documents of the chat as they are or adds exactly one document
\* after them, which only the addDoc of a sendMessage for that chat does;
\* no stored message document is modified or removed.
C22_MessagesAppendOnly ==
    [][\A c \in ChatIds :
          \/ messages'[c] = messages[c]
          \/ /\ Len(messages'[c]) = Len(messages[c]) + 1
             /\ SubSeq(messages'[c], 1, Len(messages[c])) = messages[c]
             /\ \A n \in 1..Len(messages[c]) : messages'[c][Len(messages'[c])].id # messages[c][n].id
             /\ \E i \in Slots : Adding(i, c)
             /\ \A o \in ChatIds \ {c} : messages'[o] = messages[o]]_vars

\* Two sends were stored one after the other; the first document is still
\* there as it was written.
C22_Witness ==
    \E c \in ChatIds :
        /\ Len(messages[c]) >= 2
        /\ messages[c][1].id = 1 /\ messages[c][2].id = 2
        /\ Atob(messages[c][1].encryptedContent).tag
        /\ outcome.op = "send" /\ outcome.status = "ok"

\* decryptMessage is called in this step, in slot i.
Decrypting(i) == tasks[i].op = "crypt" /\ tasks[i].pc = "decrypt" /\ tasks'[i] = Idle

\* What the call in slot i hands to decryptMessage is what encryptMessage
\* returned for its text, and the key is the one it encrypted with.
Untampered(t) == \E n \in 1..MaxIvs : t.enc = encryptMessage(t.text, t.key, n)

\* A string without lone surrogates.
WellFormed(p) == Surrogate \notin Range(p)

UsedIvs(c) ==
    {<<Atob(messages[c][n].encryptedContent).gcm, messages[c][n].iv>> :
        n \in DOMAIN messages[c]}

\* C25: no (key, IV) pair is used twice: two different message documents
\* encrypted under the same key carry different IVs, and a sendMessage that
\* has encrypted and is about to write holds an IV that none of the stored
\* documents of that key carries.
C25_NoIvReuse ==
    /\ \A c, o \in ChatIds :
          \A m \in DOMAIN messages[c], n \in DOMAIN messages[o] :
              (/\ <<c, m>> # <<o, n>>
               /\ Atob(messages[c][m].encryptedContent).gcm
                      = Atob(messages[o][n].encryptedContent).gcm)
                  => messages[c][m].iv # messages[o][n].iv
    /\ \A i \in Slots :
          (tasks[i].op = "send" /\ tasks[i].pc = "addDoc")
              => \A c \in ChatIds : <<tasks[i].key.aes, tasks[i].enc.iv>> \notin UsedIvs(c)

\* Two messages with the same text from the same sender are stored under one
\* key, each with an IV of its own.
C25_Witness ==
    \E c \in ChatIds :
        /\ Len(messages[c]) >= 2
        /\ messages[c][1].sender = messages[c][2].sender
        /\ Atob(messages[c][1].encryptedContent).data = Atob(messages[c][2].encryptedContent).data
        /\ Atob(messages[c][1].encryptedContent).gcm = Atob(messages[c][2].encryptedContent).gcm
        /\ messages[c][1].iv # messages[c][2].iv

\* The public key IndexedDB holds for u, as initUserChatKeys publishes it.
StoredPublicKey(u) == exportPublicKey(ImportJwkPair(idb[u]).publicKey)

\* C26: on A's own device, whenever no initUserChatKeys is running and A's
\* user document carries a public key, that key is the public half of the
\* pair IndexedDB holds for A, so that a chat key wrapped under the
\* published key can be unwrapped with the stored private key.
C26_PublishedIsStored ==
    (~InitRunning("A") /\ userDocs["A"].chatPublicKey # NoPublicKey)
        => /\ idb["A"] # NoStored
           /\ userDocs["A"].chatPublicKey = StoredPublicKey("A")

\* sendMessage in slot i throws to its caller in this step.
SendRaises(i) ==
    /\ tasks[i].op = "send" /\ tasks'[i] = Idle
    /\ outcome'.op = "send" /\ outcome'.status \notin {"ok", "nothing"}

\* The message store holds the document that the call t wrote.
Stored(t, store) ==
    /\ t.enc # NoEnc
    /\ t.chat \in DOMAIN store
    /\ \E n \in DOMAIN store[t.chat] :
          /\ store[t.chat][n].encryptedContent = t.enc.ciphertext
          /\ store[t.chat][n].iv = t.enc.iv

\* C27: sendMessage is all-or-nothing towards its caller: when it throws,
\* the message store holds no document written by that call, so the text
\* the send form restores can be sent again without being stored twice.
C27_SendAllOrNothing ==
    [][\A i \in Slots : SendRaises(i) => ~Stored(tasks[i], messages')]_vars

\* The chat documents c and d are the same chat stored twice.
SameChat(c, d) ==
    /\ chats[c].createdBy = chats[d].createdBy
    /\ chats[c].participants = chats[d].participants

\* C28: one click on Start Chat creates at most one chat document, however
\* often initChat and destroyChat ran on the page before: with every member
\* selection started once, no two chat documents have the same creator and
\* the same participants.
C28_OneClickOneChat ==
    \A c, d \in 1..Len(chats) : SameChat(c, d) => c = d

\* C29: the render callback only ever gets a batch of the chat whose
\* subscription is live: once a chat has been unsubscribed, no handler of
\* its subscription calls the callback any more, a handler that was still
\* resolving the key or decrypting at that time included.
C29_NoBatchAfterUnsubscribe ==
    (outcome.op = "snap" /\ outcome.status = "ok") => sub.chat = outcome.chat

\* The handler in slot j got a snapshot of chat c other than docs and still
\* waits for the chat key.
StillResolving(j, c, docs) ==
    /\ tasks[j].op = "snap" /\ tasks[j].chat = c
    /\ tasks[j].pc \in {"getDoc", "idbGet", "idbPut"}
    /\ tasks[j].docs # docs

\* C30: the batches of a subscription reach the callback in the order in
\* which their snapshots arrived: the batch of the snapshot that arrived
\* last is never delivered while the handler of an earlier snapshot is
\* still waiting for the chat key and has its older batch yet to deliver.
C30_BatchesInSnapshotOrder ==
    (/\ outcome.op = "snap" /\ outcome.status = "ok"
     /\ sub.chat = outcome.chat /\ sub.sent
     /\ outcome.docs = sub.last)
        => \A j \in Slots : ~StillResolving(j, outcome.chat, outcome.docs)

\* destroyChat has run since initChat last bound the handlers of the page,
\* and initChat has not run again.
Destroyed == listeners >= 1 /\ ~initialized

\* Some onSnapshot listener of the chat panel is registered.
Live == liveChats > 0 \/ \E c \in ChatIds : liveMessages[c] > 0

\* C31: after destroyChat no message subscription and no chat-list
\* subscription is live until the next initChat, the _openChat that a
\* successful createChat schedules 200 ms later included.
C31_NothingLiveAfterDestroy == Destroyed => ~Live

RECURSIVE LiveUpTo(_)
\* The message listeners registered for the chats 1..c.
LiveUpTo(c) == IF c = 0 THEN 0 ELSE liveMessages[c] + LiveUpTo(c - 1)

\* C32: whatever the sequence of initChat, opening chats, back, createChat
\* and destroyChat, at most one chat-list subscription and at most one
\* message subscription are live, and the live message subscription is the
\* one of the active chat, the one _unsubMessages ends.
C32_OneSubscriptionEach ==
    /\ liveChats <= 1
    /\ LiveUpTo(MaxChats) <= 1
    /\ \A c \in ChatIds :
          liveMessages[c] > 0 => activeChatId = c /\ sub # NoSub /\ sub.chat = c

\* Two chats were started and the delayed _openChat of each has run, the
\* second replacing the subscription of the first; the chat list is
\* subscribed and one chat is open.
C32_Witness ==
    /\ Len(chats) = 2 /\ timers = {}
    /\ liveChats = 1
    /\ activeChatId # 0 /\ liveMessages[activeChatId] = 1

\* The symmetric key wrapped in the copy the chat document d stores for u.
WrappedKey(d, u) == [aes |-> Atob(d.encryptedKeys[u]).raw]

\* C33: every entry (chatId, key) of the cache refers to a chat document
\* that the store holds, and key is the symmetric key whose wrapped copies
\* the document stores in encryptedKeys.
C33_CacheCoherent ==
    \A c \in ChatIds :
        CacheHas(c) =>
            /\ c \in 1..Len(chats)
            /\ \A u \in DOMAIN chats[c].encryptedKeys :
                  WrappedKey(chats[c], u) = keyCache[c]

\* A call resolved the key of a stored chat from the chat document (it was
\* not cached) and the cache holds the key it unwrapped.
C33_Witness ==
    \E i \in Slots :
        /\ Unwrapped(tasks[i])
        /\ tasks[i].chat \in 1..Len(chats)
        /\ keyCache[tasks[i].chat] = tasks[i].key

\* C34: whenever _initialized is true and a user is signed in, the chat-list
\* subscription is live and initChat has started the key initialisation for
\* that user; so an initChat called while a user is signed in and no
\* chat-list subscription is live never finds _initialized true and returns.
C34_InitializedMeansSubscribed ==
    (initialized /\ currentUser # None)
        => liveChats > 0 /\ keyInitFor = currentUser

\* What makes _getChatKey throw.
KeyErrors == {"NotAuthenticated"} \cup ResolveErrors

\* The handler of a snapshot ends in this step because its key resolution
\* failed.
SnapshotKeyFailure == outcome'.op = "snap" /\ outcome'.status \in KeyErrors

\* The snapshot handlers that have not called the callback yet.
Handlers == {i \in Slots : tasks[i].op = "snap"}

\* C35: when the key resolution of a subscription snapshot fails (not
\* authenticated, chat not found, no wrapped key for the caller, unwrap
\* failure), the callback is called once for that snapshot, with the empty
\* batch (the handler ends with that call and no other call starts or ends
\* in the step), and nothing is added to the cache.
C35_KeyFailureGivesEmptyBatch ==
    [][SnapshotKeyFailure =>
          /\ outcome'.batch = <<>>
          /\ keyCache' = keyCache
          /\ \/ /\ outcome'.status = "NotAuthenticated"
                /\ tasks' = tasks
             \/ \E i \in Handlers :
                   /\ tasks' = [tasks EXCEPT ![i] = Idle]
                   /\ outcome'.chat = tasks[i].chat]_vars

\* The handler of a snapshot of a chat that holds a message has just called
\* the callback with the empty batch, because the unwrap failed or the
\* user has no wrapped key.
C35_Witness ==
    /\ outcome.op = "snap" /\ outcome.status \in ResolveErrors
    /\ outcome.chat \in 1..Len(chats)
    /\ messages[outcome.chat] # <<>>
    /\ outcome.batch = <<>>

\* A sendMessage call of a signed-in user returned early in this step.
ReturnsEarly == outcome'.op = "send" /\ outcome'.status = "nothing"

\* C36: sendMessage with an empty or white-space-only text by a signed-in
\* user returns without error and without effect: the step starts no call
\* and changes neither the message store, the chat documents, the stored
\* key pairs nor the cache; and no sendMessage call ever goes on to the key
\* resolution with such a text.
C36_BlankSendIsNoOp ==
    [][/\ ReturnsEarly =>
             /\ outcome'.user = currentUser /\ currentUser # None
             /\ tasks' = tasks
             /\ backend' = backend
             /\ keyCache' = keyCache /\ idb' = idb
             /\ bookkeeping' = bookkeeping
       /\ \A i \in Slots :
             tasks'[i].op = "send" => Trim(tasks'[i].text) # <<>>]_vars

\* A participant's sendMessage with a blank text has just returned; the
\* chat holds no message and the cache no key for it.
C36_Witness ==
    /\ outcome.op = "send" /\ outcome.status = "nothing"
    /\ outcome.chat \in 1..Len(chats)
    /\ outcome.user \in Range(chats[outcome.chat].participants)
    /\ messages[outcome.chat] = <<>>
    /\ ~CacheHas(outcome.chat)

====
